---- MODULE Spec2Model ----
(***************************************************************************)
(* Obot Core (src/core/autobot.py): the orchestration loop ObotCore.run /  *)
(* run_cycle with its session gate, admission check and per-pair           *)
(* try/except, and the sizing utility RiskManager.calculate_lot_size.      *)
(*                                                                         *)
(* The collaborators (DataProvider, Strategy) are abstract in the source:  *)
(* every call to them either returns a value or raises, chosen here        *)
(* nondeterministically.  calls, events, sleeps and trader_calls record    *)
(* what the current cycle did (collaborator calls, logging records,        *)
(* time.sleep arguments, Trader calls); they are cleared when run() enters *)
(* the next run_cycle.                                                     *)
(***************************************************************************)
EXTENDS Integers, Sequences, FiniteSets, TLC

VARIABLES pc, i, now, clock, active_positions, data, passed, signal,
          calls, events, sleeps, trader_calls,
          last_call, first_outcome, ties_up

vars == <<pc, i, now, clock, active_positions, data, passed, signal,
          calls, events, sleeps, trader_calls,
          last_call, first_outcome, ties_up>>

coreVars == <<pc, i, now, active_positions, data, passed, signal,
              calls, events, sleeps, trader_calls>>

sizerVars == <<last_call, first_outcome, ties_up>>

----------------------------------------------------------------------------
(* Bounds of the model *)

\* how many of the configured pairs the model polls
NumPairs == 3
\* largest open-trade count a preloaded position table holds
MaxOpen == 2
\* distance (minutes) of the sampled clock values from the session bounds
ClockStep == 1
\* largest account balance handed to calculate_lot_size
MaxBalance == 3
\* largest stop distance (pips) handed to calculate_lot_size
MaxSlPips == 2

----------------------------------------------------------------------------
(* CONFIG *)

ALL_PAIRS == <<"EURUSD", "GBPUSD", "USDJPY", "USDCHF", "AUDUSD", "USDCAD", "NZDUSD">>

\* the first NumPairs entries of the configured list, in configuration order
PAIRS == SubSeq(ALL_PAIRS, 1, NumPairs)

PairSet == {PAIRS[k] : k \in 1..Len(PAIRS)}

\* datetime.time(8, 0) and datetime.time(12, 0), in minutes of the day
TRADING_SESSION_START == 8 * 60
TRADING_SESSION_END == 12 * 60

\* 0.01, as a percentage
RISK_PERCENT_PER_TRADE == 1
MAX_CONCURRENT_TRADES_PER_PAIR == 1

\* time.sleep(300), time.sleep(60)
IDLE_SLEEP == 300
POLL_SLEEP == 60

\* fetch_candles(pair, "H1", 100)
CANDLE_COUNT == 100

\* the 10 of sl_pips * 10
PIP_VALUE == 10

----------------------------------------------------------------------------
(* The clock: datetime.datetime.utcnow().time() *)

NoTime == -1

\* sampled times of day: just before, at and just after each session bound
Times == { TRADING_SESSION_START - ClockStep, TRADING_SESSION_START,
           TRADING_SESSION_START + ClockStep,
           TRADING_SESSION_END, TRADING_SESSION_END + ClockStep }

\* the next sampled time of day, wrapping at midnight
NextTime(t) ==
    LET later == {u \in Times : u > t}
    IN  IF later = {}
        THEN CHOOSE u \in Times : \A v \in Times : u <= v
        ELSE CHOOSE u \in later : \A v \in later : u <= v

----------------------------------------------------------------------------
(* Collaborator outcomes *)

\* failures DataProvider.fetch_candles may raise
FetchErrors == {"DataUnavailable", "InvalidInstrument"}
\* failures Strategy.generate_signal may raise
SignalErrors == {"InvalidInput"}

\* all of them are subclasses of Exception
ExceptionClasses == FetchErrors \cup SignalErrors

\* a fetched DataFrame, by its number of bars (empty or full)
Bars == {0, CANDLE_COUNT}
NoData == -1

\* the dict generate_signal returns: its "signal" entry may be missing
Signals == { [has_signal |-> TRUE, value |-> v] : v \in {-2, -1, 0, 1, 2} }
           \cup { [has_signal |-> FALSE, value |-> 0] }
NoSignal == [has_signal |-> FALSE, value |-> 0]

\* signal.get("signal", 0)
SignalGet(s) == IF s.has_signal THEN s.value ELSE 0

\* (variant: the test of the signal value is dropped)
IsActionableAlways(s) == TRUE
\* signal.get("signal", 0) != 0
IsActionable(s) == SignalGet(s) # 0

\* (variant: the two directions exchanged)
DirectionSwapped(s) == IF s.value > 0 THEN "SELL" ELSE "BUY"
\* "BUY" if signal["signal"] > 0 else "SELL"
Direction(s) == IF s.value > 0 THEN "BUY" ELSE "SELL"

\* (variant: except DataUnavailable as e)
IsCaughtDataOnly(e) == e = "DataUnavailable"
\* except Exception as e
IsCaught(e) == e \in ExceptionClasses

----------------------------------------------------------------------------
(* Records of what a cycle did *)

Call(op, pair, raised, ret) == [op |-> op, pair |-> pair, raised |-> raised, ret |-> ret]

\* logging.info("Outside trading session - sleeping")
SessionSkipEvent == [level |-> "info", kind |-> "session_skip", pair |-> "", detail |-> ""]
\* logging.info(f"{pair} | SIGNAL: {direction}")
SignalEvent(pair, direction) ==
    [level |-> "info", kind |-> "signal", pair |-> pair, detail |-> direction]
\* logging.error(f"Error processing {pair}: {e}")
ErrorEvent(pair, e) == [level |-> "error", kind |-> "error", pair |-> pair, detail |-> e]

----------------------------------------------------------------------------
(* ObotCore *)

\* (variant: the table starts above the cap)
InitPositionsOverCap == [p \in PairSet |-> MAX_CONCURRENT_TRADES_PER_PAIR + 1]
\* self.active_positions = {pair: 0 for pair in PAIRS}
InitPositions == [p \in PairSet |-> 0]

\* (variants: strict comparisons; the upper bound forgotten)
is_trading_session_exclusive(t) == TRADING_SESSION_START < t /\ t < TRADING_SESSION_END
is_trading_session_no_end(t) == TRADING_SESSION_START <= t
\* TRADING_SESSION_START <= now <= TRADING_SESSION_END, now being utcnow().time()
is_trading_session(t) == TRADING_SESSION_START <= t /\ t <= TRADING_SESSION_END

\* (variant: > for >=)
AtCapStrict(n) == n > MAX_CONCURRENT_TRADES_PER_PAIR
\* self.active_positions[pair] >= MAX_CONCURRENT_TRADES_PER_PAIR
AtCap(n) == n >= MAX_CONCURRENT_TRADES_PER_PAIR

\* run() calls run_cycle(), which reads the clock once and tests the session
CycleStart ==
    /\ pc = "start"
    /\ now' = clock
    /\ calls' = <<>>
    /\ sleeps' = <<>>
    /\ i' = 1
    /\ IF is_trading_session(clock)
       THEN /\ events' = <<>>
            /\ pc' = "loop"
       ELSE /\ events' = <<SessionSkipEvent>>
            /\ pc' = "idle_sleep"
    /\ UNCHANGED <<clock, active_positions, data, passed, signal, trader_calls, sizerVars>>

\* now, when is_trading_session raised instead of returning
SessionFailed == -2

\* (variant: the session check sits inside a try that logs and idles)
SessionCheckRaisesCaught ==
    /\ pc = "start"
    /\ now' = SessionFailed
    /\ calls' = <<>>
    /\ events' = <<ErrorEvent("", "SessionCheckFailed")>>
    /\ sleeps' = <<>>
    /\ i' = 1
    /\ pc' = "idle_sleep"
    /\ UNCHANGED <<clock, active_positions, data, passed, signal, trader_calls, sizerVars>>

\* run() calls run_cycle(), and is_trading_session raises: the call is outside
\* the try block, so the exception leaves run_cycle and run's while loop
SessionCheckRaises ==
    /\ pc = "start"
    /\ now' = SessionFailed
    /\ calls' = <<>>
    /\ events' = <<>>
    /\ sleeps' = <<>>
    /\ i' = 1
    /\ pc' = "propagated"
    /\ UNCHANGED <<clock, active_positions, data, passed, signal, trader_calls, sizerVars>>

\* time.sleep(300); return
IdleSleep ==
    /\ pc = "idle_sleep"
    /\ sleeps' = Append(sleeps, IDLE_SLEEP)
    /\ pc' = "start"
    /\ UNCHANGED <<i, now, clock, active_positions, data, passed, signal, calls, events,
                   trader_calls, sizerVars>>

\* (variant: the loop tests the session again before each pair and breaks)
AdmissionCheckRechecksSession ==
    /\ pc = "loop"
    /\ i <= Len(PAIRS)
    /\ IF ~is_trading_session(clock)
       THEN /\ i' = Len(PAIRS) + 1
            /\ pc' = "loop"
       ELSE IF AtCap(active_positions[PAIRS[i]])
       THEN /\ i' = i + 1
            /\ pc' = "loop"
       ELSE /\ i' = i
            /\ pc' = "fetch"
    /\ UNCHANGED <<now, clock, active_positions, data, passed, signal, calls, events,
                   sleeps, trader_calls, sizerVars>>

\* for pair in PAIRS: if at the cap: continue
AdmissionCheck ==
    /\ pc = "loop"
    /\ i <= Len(PAIRS)
    /\ IF AtCap(active_positions[PAIRS[i]])
       THEN /\ i' = i + 1
            /\ pc' = "loop"
       ELSE /\ i' = i
            /\ pc' = "fetch"
    /\ UNCHANGED <<now, clock, active_positions, data, passed, signal, calls, events, sleeps,
                   trader_calls, sizerVars>>

\* (variant: the try wraps the whole loop, so an error ends the cycle at once)
RaiseEndsCycle(op, e) ==
    /\ calls' = Append(calls, Call(op, PAIRS[i], e, NoSignal))
    /\ events' = Append(events, ErrorEvent(PAIRS[i], e))
    /\ i' = i
    /\ pc' = "start"
    /\ data' = NoData
    /\ passed' = NoData
    /\ signal' = NoSignal

\* the handler of the try block: log the error and go on with the next pair;
\* what "except Exception" does not catch leaves run_cycle and run
Raise(op, e) ==
    /\ calls' = Append(calls, Call(op, PAIRS[i], e, NoSignal))
    /\ IF IsCaught(e)
       THEN /\ events' = Append(events, ErrorEvent(PAIRS[i], e))
            /\ i' = i + 1
            /\ pc' = "loop"
       ELSE /\ events' = events
            /\ i' = i
            /\ pc' = "propagated"
    /\ data' = NoData
    /\ passed' = NoData
    /\ signal' = NoSignal

\* data = self.data_provider.fetch_candles(pair, "H1", 100) returns
FetchReturns ==
    /\ pc = "fetch"
    /\ \E d \in Bars : data' = d
    /\ calls' = Append(calls, Call("fetch_candles", PAIRS[i], "none", NoSignal))
    /\ pc' = "signal"
    /\ UNCHANGED <<i, now, clock, active_positions, passed, signal, events, sleeps,
                   trader_calls, sizerVars>>

\* fetch_candles raises
FetchRaises ==
    /\ pc = "fetch"
    /\ \E e \in FetchErrors : Raise("fetch_candles", e)
    /\ UNCHANGED <<now, clock, active_positions, sleeps, trader_calls, sizerVars>>

\* (variant: an empty frame is replaced before the strategy sees it)
BarsPassedNonEmptyOnly(d) == IF d = 0 THEN NoData ELSE d
\* the second argument of generate_signal(pair, data): data as fetched
BarsPassed(d) == d

\* signal = self.strategy.generate_signal(pair, data) returns; passed is the
\* frame the strategy was handed
SignalReturns ==
    /\ pc = "signal"
    /\ \E s \in Signals :
         /\ signal' = s
         /\ calls' = Append(calls, Call("generate_signal", PAIRS[i], "none", s))
    /\ passed' = BarsPassed(data)
    /\ pc' = "evaluate"
    /\ UNCHANGED <<i, now, clock, active_positions, data, events, sleeps,
                   trader_calls, sizerVars>>

\* generate_signal raises
SignalRaises ==
    /\ pc = "signal"
    /\ \E e \in SignalErrors : Raise("generate_signal", e)
    /\ UNCHANGED <<now, clock, active_positions, sleeps, trader_calls, sizerVars>>

\* (variant: the loop steps over the pair after an evaluated one)
EvaluateSignalSkipsNext ==
    /\ pc = "evaluate"
    /\ events' = IF IsActionable(signal)
                 THEN Append(events, SignalEvent(PAIRS[i], Direction(signal)))
                 ELSE events
    /\ i' = i + 2
    /\ pc' = "loop"
    /\ data' = NoData
    /\ passed' = NoData
    /\ signal' = NoSignal
    /\ UNCHANGED <<now, clock, active_positions, calls, sleeps, trader_calls, sizerVars>>

\* (variant: the place_order line is live and the table counts the order)
EvaluateSignalPlacesOrder ==
    /\ pc = "evaluate"
    /\ IF IsActionable(signal)
       THEN /\ events' = Append(events, SignalEvent(PAIRS[i], Direction(signal)))
            /\ trader_calls' = Append(trader_calls, Call("place_order", PAIRS[i], "none", signal))
            /\ active_positions' = [active_positions EXCEPT ![PAIRS[i]] = @ + 1]
       ELSE UNCHANGED <<events, trader_calls, active_positions>>
    /\ i' = i + 1
    /\ pc' = "loop"
    /\ data' = NoData
    /\ passed' = NoData
    /\ signal' = NoSignal
    /\ UNCHANGED <<now, clock, calls, sleeps, sizerVars>>

\* if signal.get("signal", 0) != 0: log the direction (place_order is commented out)
EvaluateSignal ==
    /\ pc = "evaluate"
    /\ events' = IF IsActionable(signal)
                 THEN Append(events, SignalEvent(PAIRS[i], Direction(signal)))
                 ELSE events
    /\ i' = i + 1
    /\ pc' = "loop"
    /\ data' = NoData
    /\ passed' = NoData
    /\ signal' = NoSignal
    /\ UNCHANGED <<now, clock, active_positions, calls, sleeps, trader_calls, sizerVars>>

\* (variant: run leaves its loop after the poll sleep)
PollSleepStops ==
    /\ pc = "loop"
    /\ i > Len(PAIRS)
    /\ sleeps' = Append(sleeps, POLL_SLEEP)
    /\ pc' = "stopped"
    /\ UNCHANGED <<i, now, clock, active_positions, data, passed, signal, calls, events,
                   trader_calls, sizerVars>>

\* after the for loop: time.sleep(60), and run_cycle returns to run's while True
PollSleep ==
    /\ pc = "loop"
    /\ i > Len(PAIRS)
    /\ sleeps' = Append(sleeps, POLL_SLEEP)
    /\ pc' = "start"
    /\ UNCHANGED <<i, now, clock, active_positions, data, passed, signal, calls, events,
                   trader_calls, sizerVars>>

\* time passes
Tick ==
    /\ clock' = NextTime(clock)
    /\ UNCHANGED <<coreVars, sizerVars>>

----------------------------------------------------------------------------
(* RiskManager.calculate_lot_size *)

SizerArgs == [balance |-> 0, risk |-> 0, sl_pips |-> 0]

\* the sampled arguments: balance, risk percent, stop distance in pips
Balances == -1..MaxBalance
RiskPercents == {0, RISK_PERCENT_PER_TRADE, 50, 100, 101}
SlPips == -1..MaxSlPips

\* the nearest integer to n / m (m # 0).  An exact tie falls the way the binary
\* value of the float lies, which the arguments do not show: ties_up leaves it open.
RoundDiv(n, m) ==
    LET nn == IF m < 0 THEN 0 - n ELSE n
        mm == IF m < 0 THEN 0 - m ELSE m
        q == nn \div mm
        r == nn % mm
    IN  IF 2 * r < mm THEN q
        ELSE IF 2 * r > mm THEN q + 1
        ELSE IF ties_up THEN q + 1 ELSE q

\* (variant: round(lot_size, 1))
round1(n, m) == 10 * RoundDiv(n, 10 * m)
\* round(lot_size, 2), as a number of hundredths: lot_size is n / (100 * m)
round2(n, m) == RoundDiv(n, m)

\* (variant: risk_amount carries the previous call's result over)
calculate_lot_size_accumulating(account_balance, risk_percent, sl_pips) ==
    LET risk_amount == account_balance * risk_percent + last_call.value
    IN  IF sl_pips * PIP_VALUE = 0
        THEN [raised |-> "ZeroDivisionError", value |-> 0]
        ELSE [raised |-> "none", value |-> round2(risk_amount, sl_pips * PIP_VALUE)]
\* risk_amount = account_balance * risk_percent; lot_size = risk_amount / (sl_pips * 10);
\* return round(lot_size, 2), here in hundredths; risk_percent is a percentage.
\* Dividing by 0 raises ZeroDivisionError.
calculate_lot_size(account_balance, risk_percent, sl_pips) ==
    LET risk_amount == account_balance * risk_percent
    IN  IF sl_pips * PIP_VALUE = 0
        THEN [raised |-> "ZeroDivisionError", value |-> 0]
        ELSE [raised |-> "none", value |-> round2(risk_amount, sl_pips * PIP_VALUE)]

\* a caller invokes the static method
SizeCall ==
    /\ \E b \in Balances, r \in RiskPercents, d \in SlPips :
         LET args == [balance |-> b, risk |-> r, sl_pips |-> d]
             out == calculate_lot_size(b, r, d)
             again == last_call.n > 0 /\ last_call.args = args
         IN  /\ last_call' = [args |-> args, raised |-> out.raised, value |-> out.value,
                              n |-> IF again THEN 2 ELSE 1]
             /\ first_outcome' = IF again THEN first_outcome ELSE out
    /\ UNCHANGED <<coreVars, clock, ties_up>>

----------------------------------------------------------------------------
(* Specifications *)

InitCore ==
    /\ pc = "start"
    /\ i = 1
    /\ now = NoTime
    /\ clock \in Times
    /\ data = NoData
    /\ passed = NoData
    /\ signal = NoSignal
    /\ calls = <<>>
    /\ events = <<>>
    /\ sleeps = <<>>
    /\ trader_calls = <<>>

InitSizer ==
    /\ last_call = [args |-> SizerArgs, raised |-> "none", value |-> 0, n |-> 0]
    /\ first_outcome = [raised |-> "none", value |-> 0]

\* the orchestrator as constructed by ObotCore.__init__
Init ==
    /\ InitCore
    /\ active_positions = InitPositions
    /\ InitSizer
    /\ ties_up = FALSE

NextCore ==
    \/ CycleStart
    \/ IdleSleep
    \/ AdmissionCheck
    \/ FetchReturns
    \/ FetchRaises
    \/ SignalReturns
    \/ SignalRaises
    \/ EvaluateSignal
    \/ PollSleep
    \/ Tick

Next == NextCore

Spec == Init /\ [][Next]_vars

\* the steps of run's thread: everything but the passing of time
RunStep ==
    \/ CycleStart
    \/ IdleSleep
    \/ AdmissionCheck
    \/ FetchReturns
    \/ FetchRaises
    \/ SignalReturns
    \/ SignalRaises
    \/ EvaluateSignal
    \/ PollSleep

\* the orchestrator when every collaborator call and every sleep comes back:
\* the single thread of run then always takes its next step
SpecLive == Init /\ [][Next]_vars /\ WF_vars(RunStep)

\* the orchestrator when the session-window computation may fail
NextFatal ==
    \/ NextCore
    \/ SessionCheckRaises

SpecFatal == Init /\ [][NextFatal]_vars

\* the orchestrator with a position table the embedding application has filled
\* (active_positions is a public attribute; run_cycle itself never writes it)
InitPreset ==
    /\ InitCore
    /\ active_positions \in [PairSet -> 0..MaxOpen]
    /\ InitSizer
    /\ ties_up = FALSE

SpecPreset == InitPreset /\ [][Next]_vars

\* the sizing utility called with sampled arguments while time passes
InitSizing ==
    /\ InitCore
    /\ active_positions = InitPositions
    /\ InitSizer
    /\ ties_up \in BOOLEAN

NextSizing ==
    \/ SizeCall
    \/ Tick

SpecSizer == InitSizing /\ [][NextSizing]_vars

----------------------------------------------------------------------------
(* What a cycle did, read off its records *)

WithinSessionBounds(t) == TRADING_SESSION_START <= t /\ t <= TRADING_SESSION_END

\* a run_cycle has been entered, and the clock it read was inside the window
StartedInSession == now # NoTime /\ WithinSessionBounds(now)
StartedOutOfSession == now # NoTime /\ ~WithinSessionBounds(now)

\* the last run_cycle has returned to run
CycleEnded == pc = "start" /\ now # NoTime

CallsOf(op, p) == {k \in DOMAIN calls : calls[k].op = op /\ calls[k].pair = p}
ReturnedCallsOf(op, p) == {k \in CallsOf(op, p) : calls[k].raised = "none"}
RaisedCallsOf(p) == {k \in DOMAIN calls : calls[k].pair = p /\ calls[k].raised # "none"}
EventsOf(kind, p) == {k \in DOMAIN events : events[k].kind = kind /\ events[k].pair = p}

----------------------------------------------------------------------------
(* C1: per-instrument fault isolation.  An exception raised by fetch_candles  *)
(* or generate_signal never leaves run_cycle; each raising call leaves        *)
(* exactly one error event for its pair and the other pairs get none; and an  *)
(* in-session cycle that has ended fetched every pair below its cap once,     *)
(* asked for a signal wherever the fetch returned, and reached its poll       *)
(* sleep.                                                                     *)
C1_FaultIsolation ==
    /\ pc # "propagated"
    /\ \A p \in PairSet :
         /\ Cardinality(RaisedCallsOf(p)) <= 1
         /\ Cardinality(EventsOf("error", p)) = Cardinality(RaisedCallsOf(p))
    /\ (CycleEnded /\ StartedInSession) =>
         /\ sleeps = <<POLL_SLEEP>>
         /\ \A p \in PairSet :
              active_positions[p] < MAX_CONCURRENT_TRADES_PER_PAIR =>
                 /\ Cardinality(CallsOf("fetch_candles", p)) = 1
                 /\ Cardinality(CallsOf("generate_signal", p))
                      = Cardinality(ReturnedCallsOf("fetch_candles", p))

\* a finished cycle in which the second pair's fetch raised DataUnavailable and
\* the first and the third pair were fetched and evaluated
C1_Witness ==
    /\ CycleEnded
    /\ \E k \in CallsOf("fetch_candles", PAIRS[2]) : calls[k].raised = "DataUnavailable"
    /\ ReturnedCallsOf("generate_signal", PAIRS[1]) # {}
    /\ ReturnedCallsOf("generate_signal", PAIRS[3]) # {}
    /\ Cardinality(EventsOf("error", PAIRS[2])) = 1

(* C2: session gating.  A cycle entered outside the window calls no          *)
(* collaborator, logs exactly the session-skip record, sleeps 300 exactly     *)
(* once and never 60, and returns to run.                                     *)
C2_SessionGating ==
    StartedOutOfSession =>
        /\ pc \in {"idle_sleep", "start"}
        /\ calls = <<>>
        /\ events = <<SessionSkipEvent>>
        /\ sleeps = IF pc = "start" THEN <<IDLE_SLEEP>> ELSE <<>>

\* a cycle entered after the end of the window has slept 300 and returned
C2_Witness ==
    /\ pc = "start"
    /\ now = TRADING_SESSION_END + ClockStep
    /\ sleeps = <<IDLE_SLEEP>>
    /\ calls = <<>>

(* C3: the window test is inclusive on both bounds.  A cycle goes on to      *)
(* instrument polling exactly when the time it read satisfies                 *)
(* sessionStart <= now <= sessionEnd, and takes the idle branch otherwise.    *)
C3_InclusiveWindow ==
    now # NoTime =>
        LET polling == \/ pc \in {"loop", "fetch", "signal", "evaluate"}
                       \/ (pc = "start" /\ sleeps = <<POLL_SLEEP>>)
            idling == \/ pc = "idle_sleep"
                      \/ (pc = "start" /\ sleeps = <<IDLE_SLEEP>>)
        IN  /\ polling <=> WithinSessionBounds(now)
            /\ idling <=> ~WithinSessionBounds(now)

\* a cycle entered at exactly 12:00 is fetching the first pair
C3_Witness ==
    /\ now = TRADING_SESSION_END
    /\ pc = "fetch"
    /\ i = 1

(* C4: admission control before I/O.  In an in-session cycle a pair whose    *)
(* open-trade count is at or above the cap gets no fetch_candles call, no     *)
(* generate_signal call and no event; the pairs below the cap are still       *)
(* fetched once each.                                                         *)
C4_AdmissionBeforeIO ==
    StartedInSession =>
        /\ \A p \in PairSet :
             active_positions[p] >= MAX_CONCURRENT_TRADES_PER_PAIR =>
                 /\ \A k \in DOMAIN calls : calls[k].pair # p
                 /\ \A k \in DOMAIN events : events[k].pair # p
        /\ CycleEnded =>
             \A p \in PairSet :
                 active_positions[p] < MAX_CONCURRENT_TRADES_PER_PAIR =>
                     Cardinality(CallsOf("fetch_candles", p)) = 1

\* a finished in-session cycle over a table with one pair at the cap, one above
\* it and one below it, the last of which was fetched
C4_Witness ==
    /\ CycleEnded
    /\ StartedInSession
    /\ \E p \in PairSet : active_positions[p] = MAX_CONCURRENT_TRADES_PER_PAIR
    /\ \E p \in PairSet : active_positions[p] > MAX_CONCURRENT_TRADES_PER_PAIR
    /\ \E p \in PairSet : active_positions[p] = 0 /\ CallsOf("fetch_candles", p) # {}

(* C5: a none signal is not acted on.  A pair has an actionable-signal event *)
(* only if generate_signal returned a non-zero signal for it in this cycle;   *)
(* a returned signal of 0 leaves no such event; nothing is ever sent to the   *)
(* Trader.                                                                    *)
C5_NoneSignalNotActionable ==
    /\ trader_calls = <<>>
    /\ \A p \in PairSet :
         /\ EventsOf("signal", p) # {} =>
              \E k \in ReturnedCallsOf("generate_signal", p) : SignalGet(calls[k].ret) # 0
         /\ (\E k \in ReturnedCallsOf("generate_signal", p) : SignalGet(calls[k].ret) = 0)
              => EventsOf("signal", p) = {}

\* a finished cycle in which one pair's signal was 0 and another pair's was not
C5_Witness ==
    /\ CycleEnded
    /\ \E k \in DOMAIN calls :
         /\ calls[k].op = "generate_signal"
         /\ calls[k].raised = "none"
         /\ calls[k].ret = [has_signal |-> TRUE, value |-> 0]
    /\ \E k \in DOMAIN events : events[k].kind = "signal"

----------------------------------------------------------------------------
(* RiskSizer arguments *)

\* the contract's valid arguments: positive balance, fraction in (0, 1], positive stop
ValidSizerArgs(a) == a.balance > 0 /\ a.risk >= 1 /\ a.risk <= 100 /\ a.sl_pips > 0
\* the arguments the contract says are rejected
RejectedSizerArgs(a) == a.sl_pips <= 0 \/ a.balance < 0 \/ a.risk < 1 \/ a.risk > 100

Abs(x) == IF x < 0 THEN 0 - x ELSE x

\* size(2b, r, d) for the arguments of the last call
DoubledBalanceSize ==
    calculate_lot_size(2 * last_call.args.balance, last_call.args.risk, last_call.args.sl_pips)

(* C6: input validation.  A call with stopDistance <= 0, a negative balance  *)
(* or a risk fraction outside (0, 1] fails with InvalidInput and returns no   *)
(* size.                                                                      *)
C6_RejectsInvalidInput ==
    (last_call.n > 0 /\ RejectedSizerArgs(last_call.args)) => last_call.raised = "InvalidInput"

(* C7 as stated: for valid arguments the rounded size of the doubled balance *)
(* is exactly twice the rounded size.                                         *)
C7_LinearScalingExact ==
    (last_call.n > 0 /\ ValidSizerArgs(last_call.args)) =>
        /\ DoubledBalanceSize.raised = "none"
        /\ DoubledBalanceSize.value = 2 * last_call.value

(* C7 as amended: for valid arguments the rounded size of the doubled        *)
(* balance and twice the rounded size differ by at most one hundredth.        *)
C7_LinearScalingWithinOneHundredth ==
    (last_call.n > 0 /\ ValidSizerArgs(last_call.args)) =>
        /\ last_call.raised = "none"
        /\ DoubledBalanceSize.raised = "none"
        /\ Abs(DoubledBalanceSize.value - 2 * last_call.value) <= 1

\* a valid call whose doubled balance gives one hundredth more than twice its size
C7_Witness ==
    /\ last_call.n > 0
    /\ ValidSizerArgs(last_call.args)
    /\ DoubledBalanceSize.value = 2 * last_call.value + 1

(* C8: for valid arguments calculate_lot_size returns a non-negative size,   *)
(* and a repeated call with the same arguments returns what the first call    *)
(* returned, whatever was called before and however the clock has moved.      *)
C8_DeterministicNonNegative ==
    (last_call.n > 0 /\ ValidSizerArgs(last_call.args)) =>
        /\ last_call.raised = "none"
        /\ last_call.value >= 0
        /\ first_outcome = [raised |-> last_call.raised, value |-> last_call.value]

\* a valid call repeated with the same arguments, with a positive size
C8_Witness ==
    /\ last_call.n = 2
    /\ ValidSizerArgs(last_call.args)
    /\ last_call.value > 0

----------------------------------------------------------------------------
(* C9: position-count invariant.  For every configured pair the open-trade   *)
(* count is at most the per-pair cap, in particular whenever an admission     *)
(* check starts.                                                              *)
C9_PositionCountWithinCap ==
    \A p \in PairSet : active_positions[p] <= MAX_CONCURRENT_TRADES_PER_PAIR

\* the admission check of the last pair is about to run, after earlier pairs were polled
C9_Witness ==
    /\ pc = "loop"
    /\ i = Len(PAIRS)
    /\ calls # <<>>

(* C10: an InvalidInput raised while a pair is processed leaves run_cycle    *)
(* instead of being logged as that pair's error.                              *)
C10_InvalidInputPropagates ==
    \A k \in DOMAIN calls : calls[k].raised = "InvalidInput" => pc = "propagated"

----------------------------------------------------------------------------
(* C11: the skeleton never executes.  Whatever signals are returned and      *)
(* whatever errors are raised, no call reaches the Trader (place_order,       *)
(* get_open_positions, close_position) and every pair's open-trade count      *)
(* stays at its initial value 0.                                              *)
C11_NeverExecutes ==
    /\ trader_calls = <<>>
    /\ \A p \in PairSet : active_positions[p] = 0

\* a finished cycle that logged an actionable signal and an error
C11_Witness ==
    /\ CycleEnded
    /\ \E k \in DOMAIN events : events[k].kind = "signal"
    /\ \E k \in DOMAIN events : events[k].kind = "error"
    /\ \A p \in PairSet : active_positions[p] = 0

----------------------------------------------------------------------------
\* the position of a pair in the configured list
Index(p) == CHOOSE k \in 1..Len(PAIRS) : PAIRS[k] = p

\* run_cycle is inside its for loop
InLoop == pc \in {"loop", "fetch", "signal", "evaluate"}

(* C12: poll order and sequentiality.  In an in-session cycle the calls and  *)
(* events follow the configured order of the pairs: everything recorded for   *)
(* a pair comes after everything recorded for the pairs before it, a pair's   *)
(* fetch comes before its signal call, nothing is recorded for a pair the     *)
(* loop has not reached, the pair being processed is the only unfinished one, *)
(* and a finished cycle has visited every pair exactly once.                  *)
C12_PollOrder ==
    StartedInSession =>
        /\ \A k, l \in DOMAIN calls :
             k < l =>
                \/ Index(calls[k].pair) < Index(calls[l].pair)
                \/ /\ calls[k].pair = calls[l].pair
                   /\ calls[k].op = "fetch_candles"
                   /\ calls[l].op = "generate_signal"
        /\ \A k, l \in DOMAIN events :
             k < l => Index(events[k].pair) < Index(events[l].pair)
        /\ InLoop =>
             /\ \A k \in DOMAIN calls : Index(calls[k].pair) <= i
             /\ \A k \in DOMAIN events : Index(events[k].pair) < i
             /\ pc \in {"loop", "fetch"} => \A k \in DOMAIN calls : Index(calls[k].pair) < i
        /\ CycleEnded =>
             \A p \in PairSet : Cardinality(CallsOf("fetch_candles", p)) = 1

\* the third pair is about to be fetched after the first pair gave a signal
\* event and the second an error
C12_Witness ==
    /\ pc = "fetch"
    /\ i = 3
    /\ EventsOf("signal", PAIRS[1]) # {}
    /\ EventsOf("error", PAIRS[2]) # {}
    /\ CallsOf("fetch_candles", PAIRS[3]) = {}

----------------------------------------------------------------------------
(* C13: every in-session cycle ends with exactly one poll sleep.  A cycle    *)
(* that passed the session check never takes the idle sleep, sleeps nothing   *)
(* while it is still polling, and has slept 60 exactly once, after the last   *)
(* pair, when it returns -- also when pairs raised errors and when every      *)
(* pair was skipped by the cap.                                               *)
C13_PollSleepEndsCycle ==
    StartedInSession =>
        /\ pc # "idle_sleep"
        /\ pc # "start" => sleeps = <<>>
        /\ pc = "start" => (sleeps = <<POLL_SLEEP>> /\ i = Len(PAIRS) + 1)

\* a finished in-session cycle in which the cap skipped every pair
C13_Witness ==
    /\ CycleEnded
    /\ StartedInSession
    /\ \A p \in PairSet : active_positions[p] >= MAX_CONCURRENT_TRADES_PER_PAIR
    /\ calls = <<>>
    /\ sleeps = <<POLL_SLEEP>>

----------------------------------------------------------------------------
(* C14: liveness of the run loop.  When every collaborator call and every    *)
(* sleep comes back, a cycle that has started always reaches its sleep and    *)
(* returns, run always starts another cycle after that (so there are          *)
(* infinitely many cycles), and in no reachable state is the loop unable to   *)
(* take a step: it has no terminal state.                                     *)
C14_RunLoopLives ==
    /\ (pc # "start") ~> (pc = "start" /\ sleeps # <<>>)
    /\ (pc = "start") ~> (pc # "start")
    /\ []<>(pc = "start")
    /\ [](ENABLED RunStep)

\* an idle cycle has returned at a time inside the window: the next cycle polls
C14_Witness ==
    /\ CycleEnded
    /\ sleeps = <<IDLE_SLEEP>>
    /\ WithinSessionBounds(clock)

----------------------------------------------------------------------------
(* C15: a failure of the session-window computation is fatal.  It is not     *)
(* caught: nothing is logged for it, no fetch, signal call or sleep happens   *)
(* in that cycle, and it leaves run_cycle and run, after which the loop       *)
(* takes no further step.                                                     *)
C15_SessionFailureFatal ==
    now = SessionFailed =>
        /\ pc = "propagated"
        /\ calls = <<>>
        /\ events = <<>>
        /\ sleeps = <<>>
        /\ ~ENABLED (RunStep \/ SessionCheckRaises)

\* the session check has failed at a time inside the window
C15_Witness ==
    /\ now = SessionFailed
    /\ pc = "propagated"
    /\ WithinSessionBounds(clock)

----------------------------------------------------------------------------
\* the loop has finished with pair p in the current cycle
Processed(p) == CycleEnded \/ (InLoop /\ Index(p) < i)

(* C16: per-instrument pipeline order.  For each admitted pair fetch_candles *)
(* is called exactly once and before generate_signal; generate_signal is      *)
(* called at most once, only after the fetch returned and never after it      *)
(* raised; the strategy is handed the fetched frame as it is, empty or full;  *)
(* and a pair yields at most one event per cycle.                             *)
C16_PipelineOrder ==
    StartedInSession =>
        /\ \A p \in PairSet :
             /\ Cardinality(CallsOf("fetch_candles", p)) <= 1
             /\ Cardinality(CallsOf("generate_signal", p)) <= 1
             /\ \A k \in CallsOf("generate_signal", p) :
                  \E j \in ReturnedCallsOf("fetch_candles", p) : j < k
             /\ (\E j \in CallsOf("fetch_candles", p) : calls[j].raised # "none")
                  => CallsOf("generate_signal", p) = {}
             /\ Cardinality({k \in DOMAIN events : events[k].pair = p}) <= 1
             /\ Processed(p) =>
                  /\ Cardinality(CallsOf("fetch_candles", p)) = 1
                  /\ Cardinality(CallsOf("generate_signal", p))
                       = Cardinality(ReturnedCallsOf("fetch_candles", p))
        /\ pc = "signal" => data \in Bars
        /\ pc = "evaluate" => (data \in Bars /\ passed = data)

\* generate_signal has returned after being handed an empty frame
C16_Witness ==
    /\ pc = "evaluate"
    /\ data = 0
    /\ passed = 0
    /\ CallsOf("generate_signal", PAIRS[i]) # {}

----------------------------------------------------------------------------
(* C17: the session window is evaluated once per cycle.  The time a cycle    *)
(* read is not read again before the cycle returns; wherever the clock has    *)
(* moved, the loop's step at a pair below its cap goes to that pair's fetch;  *)
(* and a cycle that passed the check returns only after every pair below its  *)
(* cap was fetched.                                                           *)
C17_SessionCheckedOncePerCycle ==
    [][ /\ pc # "start" => now' = now
        /\ ( /\ pc = "loop"
             /\ i <= Len(PAIRS)
             /\ active_positions[PAIRS[i]] < MAX_CONCURRENT_TRADES_PER_PAIR
             /\ <<pc, i>>' # <<pc, i>> )
           => (pc' = "fetch" /\ i' = i)
        /\ (InLoop /\ pc' = "start" /\ WithinSessionBounds(now))
           => \A p \in PairSet :
                 active_positions[p] < MAX_CONCURRENT_TRADES_PER_PAIR
                    => CallsOf("fetch_candles", p) # {}
      ]_vars

\* the last pair's fetch is pending in a cycle that read 08:00, with the clock
\* now past the end of the window
C17_Witness ==
    /\ pc = "fetch"
    /\ i = Len(PAIRS)
    /\ now = TRADING_SESSION_START
    /\ clock = TRADING_SESSION_END + ClockStep

----------------------------------------------------------------------------
\* the records of the current cycle's log that name pair p
EventsFor(p) == {k \in DOMAIN events : events[k].pair = p}

(* C18: signal-to-event mapping.  Once a pair's returned signal has been     *)
(* evaluated, the cycle's log holds for that pair exactly one record, the     *)
(* actionable signal with direction BUY, when the signal value is > 0;        *)
(* exactly one, with direction SELL, when it is < 0; and no record at all,    *)
(* neither signal nor error, when the value is 0 or the signal field is       *)
(* missing.                                                                   *)
C18_SignalToEvent ==
    StartedInSession =>
        \A p \in PairSet :
            \A k \in ReturnedCallsOf("generate_signal", p) :
                ~(pc = "evaluate" /\ PAIRS[i] = p) =>
                    LET ret == calls[k].ret
                    IN  IF ret.has_signal /\ ret.value > 0
                        THEN /\ Cardinality(EventsFor(p)) = 1
                             /\ \A e \in EventsFor(p) : events[e] = SignalEvent(p, "BUY")
                        ELSE IF ret.has_signal /\ ret.value < 0
                        THEN /\ Cardinality(EventsFor(p)) = 1
                             /\ \A e \in EventsFor(p) : events[e] = SignalEvent(p, "SELL")
                        ELSE EventsFor(p) = {}

\* a finished cycle with a BUY record, a SELL record and a signal without the field
C18_Witness ==
    /\ CycleEnded
    /\ \E k \in DOMAIN events : events[k].detail = "BUY"
    /\ \E k \in DOMAIN events : events[k].detail = "SELL"
    /\ \E k \in DOMAIN calls :
         /\ calls[k].op = "generate_signal"
         /\ calls[k].raised = "none"
         /\ ~calls[k].ret.has_signal

====
